---- MODULE Spec2Model ----
(***************************************************************************)
(* Model of agglom_attention_flowws/GPTModel.py: the flowws stage          *)
(* GPTModel.run and the graph-construction routine                         *)
(* universal_transformer_gpt_model.                                        *)
(*                                                                         *)
(* The routine is executed statement by statement.  Layer objects and      *)
(* symbolic tensors live in two heaps (layers, tensors) and are referred   *)
(* to by their index, so that "the identical object" is an equality of     *)
(* references.  Every application of a layer is appended to calls.         *)
(* Every call into the keras / keras_transformer / flowws libraries may    *)
(* raise; nothing in the module catches, so a raised error unwinds the     *)
(* frames on the stack.                                                    *)
(***************************************************************************)
EXTENDS Integers, Sequences, FiniteSets, TLC

\* ---- bounds of the explored inputs ----
MaxDepth == 3
MaxSeqLen == 2
MaxVocab == 2

\* ---- program constants ----
DefaultWidth == 64
DefaultNumHeads == 8
DefaultConvolutionWidth == 8
FunctionDefaultConvolutionWidth == 0

None == 0
NoStep == -1
PriorModel == -1

VARIABLES
    caller,
    scope,
    arguments,
    params,
    pc,
    stack,
    layers,
    tensors,
    calls,
    locals,
    models,
    runModel,
    exc,
    raised,
    summaryPrinted

\* caller          "run": called by the stage; "direct": the function alone
\* scope           the shared pipeline context
\* arguments       self.arguments of the stage
\* params          parameters bound by the call of the assembly function
\* pc              the statement about to run
\* stack           active frames, innermost last
\* layers          heap of layer objects, in construction order
\* tensors         heap of symbolic tensors
\* calls           layer applications and the ACT finalization, in order
\* locals          local variables of universal_transformer_gpt_model
\* models          heap of keras Model objects
\* runModel        local variable model of GPTModel.run
\* exc             the exception in flight, or NoExc
\* raised          the exception as first raised
\* summaryPrinted  number of model.summary() printouts

vars == <<caller, scope, arguments, params, pc, stack, layers, tensors, calls,
          locals, models, runModel, exc, raised, summaryPrinted>>

NoExc == [site |-> "none"]

Unbound ==
    [max_seq_length |-> 0, vocabulary_size |-> 0, word_embedding_size |-> 0,
     transformer_depth |-> 0, num_heads |-> 0, l2_reg_penalty |-> FALSE,
     agglomerative_attention |-> FALSE, use_convolutions |-> FALSE,
     use_coordinate_embeddings |-> FALSE, convolution_width |-> 0,
     penalize_confidence |-> FALSE]

NoLocals ==
    [word_ids |-> None, l2_regularizer |-> FALSE, embedding_layer |-> None,
     output_layer |-> None, conv_layer |-> None,
     coordinate_embedding_layer |-> None, transformer_block |-> None,
     transformer_act_layer |-> None, output_softmax_layer |-> None,
     next_step_input |-> None, embedding_matrix |-> None, act_output |-> None,
     range_next |-> 0, i |-> NoStep, logits |-> None,
     word_predictions |-> None, model |-> None,
     confidence_penalty |-> None]

\* ---- heap helpers ----
NewLayer(kind, name, cfg) == [kind |-> kind, name |-> name, cfg |-> cfg]

NewTensor(shape, call) == [shape |-> shape, call |-> call]

NewCall(op, layer, inputs, outputs, step) ==
    [op |-> op, layer |-> layer, inputs |-> inputs, outputs |-> outputs, step |-> step]

\* ---- raising ----
Raise ==
    /\ exc' = [site |-> pc]
    /\ raised' = [site |-> pc]
    /\ pc' = "raise"

NoRaise == UNCHANGED <<exc, raised>>


Fails ==
    /\ Raise
    /\ UNCHANGED <<caller, scope, arguments, params, stack, layers, tensors,
                   calls, locals, models, runModel, summaryPrinted>>

\* ---- shapes computed by the library layers ----
EmbeddingOutputShapes(layer, inShape) ==
    << inShape \o <<layer.cfg.output_dim>>,
       <<layer.cfg.input_dim, layer.cfg.output_dim>> >>

Conv1DOutputShape(layer, inShape) == <<inShape[1], layer.cfg.filters>>

TiedOutputShape(hiddenShape, matrixShape) == <<hiddenShape[1], matrixShape[1]>>

\* ---- applying a layer: one call record, fresh output tensors ----
OutputIds(n) == [k \in 1..n |-> Len(tensors) + k]

Apply(op, layer, inputs, outShapes, step) ==
    /\ calls' = Append(calls,
                       NewCall(op, layer, inputs, OutputIds(Len(outShapes)), step))
    /\ tensors' = tensors \o
                  [k \in 1..Len(outShapes) |-> NewTensor(outShapes[k], Len(calls) + 1)]

\* ---- inputs ----
ParamSpace ==
    [max_seq_length : 1..MaxSeqLen,
     vocabulary_size : 1..MaxVocab,
     word_embedding_size : {DefaultWidth},
     transformer_depth : 0..MaxDepth,
     num_heads : {DefaultNumHeads},
     l2_reg_penalty : BOOLEAN,
     agglomerative_attention : BOOLEAN,
     use_convolutions : BOOLEAN,
     use_coordinate_embeddings : BOOLEAN,
     convolution_width : {FunctionDefaultConvolutionWidth, DefaultConvolutionWidth},
     penalize_confidence : BOOLEAN]

ScopeSpace ==
    [vocabulary_size : 1..MaxVocab,
     sequence_length : 1..MaxSeqLen,
     model : {None, PriorModel}]

ARGS ==
    [width : {DefaultWidth},
     depth : 0..MaxDepth,
     use_convolutions : BOOLEAN,
     use_agglomeration : BOOLEAN,
     convolution_width : {FunctionDefaultConvolutionWidth, DefaultConvolutionWidth},
     num_heads : {DefaultNumHeads},
     print_summary : BOOLEAN]

DefaultARGS ==
    [width |-> DefaultWidth, depth |-> 0, use_convolutions |-> FALSE,
     use_agglomeration |-> FALSE, convolution_width |-> DefaultConvolutionWidth,
     num_heads |-> DefaultNumHeads, print_summary |-> FALSE]

Init ==
    /\ caller \in {"run", "direct"}
    /\ IF caller = "run"
       THEN /\ scope \in ScopeSpace
            /\ arguments \in ARGS
            /\ params = Unbound
            /\ pc = "L147"
            /\ stack = <<"run">>
       ELSE /\ scope = [vocabulary_size |-> 1, sequence_length |-> 1, model |-> None]
            /\ arguments = DefaultARGS
            /\ params \in ParamSpace
            /\ pc = "L69"
            /\ stack = <<"build">>
    /\ layers = <<>>
    /\ tensors = <<>>
    /\ calls = <<>>
    /\ locals = NoLocals
    /\ models = <<>>
    /\ runModel = None
    /\ exc = NoExc
    /\ raised = NoExc
    /\ summaryPrinted = 0

\* ---- GPTModel.run, first half ----
RunReadScope ==
    /\ pc = "L147"
    /\ \/ Fails
       \/ /\ NoRaise
          /\ pc' = "L152"
          /\ UNCHANGED <<caller, scope, arguments, params, stack, layers, tensors,
                         calls, locals, models, runModel, summaryPrinted>>

\* variant: the stage leaves use_coordinate_embeddings at the function default
RunCallDefaultCoordinate ==
    /\ pc = "L152"
    /\ params' = [max_seq_length |-> scope.sequence_length,
                  vocabulary_size |-> scope.vocabulary_size,
                  word_embedding_size |-> arguments.width,
                  transformer_depth |-> arguments.depth,
                  num_heads |-> arguments.num_heads,
                  l2_reg_penalty |-> TRUE,
                  agglomerative_attention |-> arguments.use_agglomeration,
                  use_convolutions |-> arguments.use_convolutions,
                  use_coordinate_embeddings |-> TRUE,
                  convolution_width |-> arguments.convolution_width,
                  penalize_confidence |-> FALSE]
    /\ stack' = Append(stack, "build")
    /\ locals' = NoLocals
    /\ pc' = "L69"
    /\ NoRaise
    /\ UNCHANGED <<caller, scope, arguments, layers, tensors, calls, models,
                   runModel, summaryPrinted>>

RunCall ==
    /\ pc = "L152"
    /\ params' = [max_seq_length |-> scope.sequence_length,
                  vocabulary_size |-> scope.vocabulary_size,
                  word_embedding_size |-> arguments.width,
                  transformer_depth |-> arguments.depth,
                  num_heads |-> arguments.num_heads,
                  l2_reg_penalty |-> TRUE,
                  agglomerative_attention |-> arguments.use_agglomeration,
                  use_convolutions |-> arguments.use_convolutions,
                  use_coordinate_embeddings |-> ~arguments.use_convolutions,
                  convolution_width |-> arguments.convolution_width,
                  penalize_confidence |-> FALSE]
    /\ stack' = Append(stack, "build")
    /\ locals' = NoLocals
    /\ pc' = "L69"
    /\ NoRaise
    /\ UNCHANGED <<caller, scope, arguments, layers, tensors, calls, models,
                   runModel, summaryPrinted>>

\* ---- universal_transformer_gpt_model: construction of the layers ----
CreateInput ==
    /\ pc = "L69"
    /\ \/ Fails
       \/ /\ NoRaise
          /\ tensors' = Append(tensors, NewTensor(<<params.max_seq_length>>, None))
          /\ locals' = [locals EXCEPT !.word_ids = Len(tensors) + 1]
          /\ pc' = "L70"
          /\ UNCHANGED <<caller, scope, arguments, params, stack, layers, calls,
                         models, runModel, summaryPrinted>>

Construct(here, next, field, layer) ==
    /\ pc = here
    /\ \/ Fails
       \/ /\ NoRaise
          /\ layers' = Append(layers, layer)
          /\ locals' = [locals EXCEPT ![field] = Len(layers) + 1]
          /\ pc' = next
          /\ UNCHANGED <<caller, scope, arguments, params, stack, tensors, calls,
                         models, runModel, summaryPrinted>>

CreateEmbeddingLayer ==
    /\ pc = "L70"
    /\ \/ Fails
       \/ /\ NoRaise
          /\ layers' = Append(layers,
                 NewLayer("ReusableEmbedding", "bpe_embeddings",
                          [input_dim |-> params.vocabulary_size,
                           output_dim |-> params.word_embedding_size,
                           input_length |-> params.max_seq_length,
                           embeddings_regularizer |-> params.l2_reg_penalty]))
          /\ locals' = [locals EXCEPT !.l2_regularizer = params.l2_reg_penalty,
                                      !.embedding_layer = Len(layers) + 1]
          /\ pc' = "L80"
          /\ UNCHANGED <<caller, scope, arguments, params, stack, tensors, calls,
                         models, runModel, summaryPrinted>>

CreateOutputLayer ==
    Construct("L80", "L84", "output_layer",
              NewLayer("TiedOutputEmbedding", "word_prediction_logits",
                       [projection_regularizer |-> locals.l2_regularizer]))

CreateConvLayer ==
    Construct("L84", "L87", "conv_layer",
              NewLayer("Conv1D", "convolution",
                       [filters |-> params.word_embedding_size,
                        kernel_size |-> params.convolution_width,
                        padding |-> "causal"]))

CreateCoordinateEmbeddingLayer ==
    Construct("L87", "L90", "coordinate_embedding_layer",
              NewLayer("TransformerCoordinateEmbedding", "coordinate_embedding",
                       [max_transformer_depth |-> params.transformer_depth]))

CreateTransformerBlock ==
    Construct("L90", "L96", "transformer_block",
              NewLayer("TransformerBlock", "transformer",
                       [num_heads |-> params.num_heads,
                        use_masking |-> TRUE,
                        vanilla_wiring |-> FALSE,
                        agglomerative_attention |-> params.agglomerative_attention]))

CreateACTLayer ==
    Construct("L96", "L97", "transformer_act_layer",
              NewLayer("TransformerACT", "adaptive_computation_time", <<>>))

CreateSoftmaxLayer ==
    Construct("L97", "L99", "output_softmax_layer",
              NewLayer("Softmax", "word_predictions", <<>>))

\* ---- universal_transformer_gpt_model: wiring ----
ApplyEmbedding ==
    /\ pc = "L99"
    /\ \/ Fails
       \/ /\ NoRaise
          /\ Apply("call", locals.embedding_layer, <<locals.word_ids>>,
                   EmbeddingOutputShapes(layers[locals.embedding_layer],
                                         tensors[locals.word_ids].shape),
                   NoStep)
          /\ locals' = [locals EXCEPT !.next_step_input = OutputIds(2)[1],
                                      !.embedding_matrix = OutputIds(2)[2],
                                      !.act_output = OutputIds(2)[1]]
          /\ pc' = "L102"
          /\ UNCHANGED <<caller, scope, arguments, params, stack, layers, models,
                         runModel, summaryPrinted>>

\* variant: the loop bound is inclusive
LoopTestInclusive ==
    /\ pc = "L102"
    /\ IF locals.range_next <= params.transformer_depth
       THEN /\ locals' = [locals EXCEPT !.i = locals.range_next,
                                        !.range_next = locals.range_next + 1]
            /\ pc' = "L103"
       ELSE /\ locals' = locals
            /\ pc' = "L110"
    /\ NoRaise
    /\ UNCHANGED <<caller, scope, arguments, params, stack, layers, tensors,
                   calls, models, runModel, summaryPrinted>>

LoopTest ==
    /\ pc = "L102"
    /\ IF locals.range_next < params.transformer_depth
       THEN /\ locals' = [locals EXCEPT !.i = locals.range_next,
                                        !.range_next = locals.range_next + 1]
            /\ pc' = "L103"
       ELSE /\ locals' = locals
            /\ pc' = "L110"
    /\ NoRaise
    /\ UNCHANGED <<caller, scope, arguments, params, stack, layers, tensors,
                   calls, models, runModel, summaryPrinted>>

ApplyConv ==
    /\ pc = "L103"
    /\ IF params.use_convolutions
       THEN \/ Fails
            \/ /\ NoRaise
               /\ Apply("call", locals.conv_layer, <<locals.next_step_input>>,
                        <<Conv1DOutputShape(layers[locals.conv_layer],
                                            tensors[locals.next_step_input].shape)>>,
                        NoStep)
               /\ locals' = [locals EXCEPT !.next_step_input = OutputIds(1)[1]]
               /\ pc' = "L105"
               /\ UNCHANGED <<caller, scope, arguments, params, stack, layers,
                              models, runModel, summaryPrinted>>
       ELSE /\ NoRaise
            /\ pc' = "L105"
            /\ UNCHANGED <<caller, scope, arguments, params, stack, layers,
                           tensors, calls, locals, models, runModel,
                           summaryPrinted>>

\* variant: the step handed to the coordinate embedding counts from one
ApplyCoordinateEmbeddingFromOne ==
    /\ pc = "L105"
    /\ IF params.use_coordinate_embeddings
       THEN \/ Fails
            \/ /\ NoRaise
               /\ Apply("call", locals.coordinate_embedding_layer,
                        <<locals.next_step_input>>,
                        <<tensors[locals.next_step_input].shape>>,
                        locals.i + 1)
               /\ locals' = [locals EXCEPT !.next_step_input = OutputIds(1)[1]]
               /\ pc' = "L107"
               /\ UNCHANGED <<caller, scope, arguments, params, stack, layers,
                              models, runModel, summaryPrinted>>
       ELSE /\ NoRaise
            /\ pc' = "L107"
            /\ UNCHANGED <<caller, scope, arguments, params, stack, layers,
                           tensors, calls, locals, models, runModel,
                           summaryPrinted>>

ApplyCoordinateEmbedding ==
    /\ pc = "L105"
    /\ IF params.use_coordinate_embeddings
       THEN \/ Fails
            \/ /\ NoRaise
               /\ Apply("call", locals.coordinate_embedding_layer,
                        <<locals.next_step_input>>,
                        <<tensors[locals.next_step_input].shape>>,
                        locals.i)
               /\ locals' = [locals EXCEPT !.next_step_input = OutputIds(1)[1]]
               /\ pc' = "L107"
               /\ UNCHANGED <<caller, scope, arguments, params, stack, layers,
                              models, runModel, summaryPrinted>>
       ELSE /\ NoRaise
            /\ pc' = "L107"
            /\ UNCHANGED <<caller, scope, arguments, params, stack, layers,
                           tensors, calls, locals, models, runModel,
                           summaryPrinted>>

\* variant: a transformer block is instantiated inside the loop body
ApplyTransformerBlockFresh ==
    /\ pc = "L107"
    /\ \/ Fails
       \/ /\ NoRaise
          /\ layers' = Append(layers, layers[locals.transformer_block])
          /\ Apply("call", Len(layers) + 1, <<locals.next_step_input>>,
                   <<tensors[locals.next_step_input].shape>>, NoStep)
          /\ locals' = [locals EXCEPT !.next_step_input = OutputIds(1)[1]]
          /\ pc' = "L108"
          /\ UNCHANGED <<caller, scope, arguments, params, stack, models,
                         runModel, summaryPrinted>>

ApplyTransformerBlock ==
    /\ pc = "L107"
    /\ \/ Fails
       \/ /\ NoRaise
          /\ Apply("call", locals.transformer_block, <<locals.next_step_input>>,
                   <<tensors[locals.next_step_input].shape>>, NoStep)
          /\ locals' = [locals EXCEPT !.next_step_input = OutputIds(1)[1]]
          /\ pc' = "L108"
          /\ UNCHANGED <<caller, scope, arguments, params, stack, layers, models,
                         runModel, summaryPrinted>>

ApplyACT ==
    /\ pc = "L108"
    /\ \/ Fails
       \/ /\ NoRaise
          /\ Apply("call", locals.transformer_act_layer, <<locals.next_step_input>>,
                   <<tensors[locals.next_step_input].shape,
                     tensors[locals.next_step_input].shape>>, NoStep)
          /\ locals' = [locals EXCEPT !.next_step_input = OutputIds(2)[1],
                                      !.act_output = OutputIds(2)[2]]
          /\ pc' = "L102"
          /\ UNCHANGED <<caller, scope, arguments, params, stack, layers, models,
                         runModel, summaryPrinted>>

\* variant: the representation fed forward stays the last iteration's
FinalizeKeepsLast ==
    /\ pc = "L110"
    /\ \/ Fails
       \/ /\ NoRaise
          /\ Apply("finalize", locals.transformer_act_layer, <<>>, <<>>, NoStep)
          /\ pc' = "L113"
          /\ UNCHANGED <<caller, scope, arguments, params, stack, layers, locals,
                         models, runModel, summaryPrinted>>

\* variant: the controller is not finalized
FinalizeOmitted ==
    /\ pc = "L110"
    /\ NoRaise
    /\ locals' = [locals EXCEPT !.next_step_input = locals.act_output]
    /\ pc' = "L113"
    /\ UNCHANGED <<caller, scope, arguments, params, stack, layers, tensors,
                   calls, models, runModel, summaryPrinted>>

Finalize ==
    /\ pc = "L110"
    /\ \/ Fails
       \/ /\ NoRaise
          /\ Apply("finalize", locals.transformer_act_layer, <<>>, <<>>, NoStep)
          /\ locals' = [locals EXCEPT !.next_step_input = locals.act_output]
          /\ pc' = "L113"
          /\ UNCHANGED <<caller, scope, arguments, params, stack, layers, models,
                         runModel, summaryPrinted>>

\* variant: the projection is handed a matrix obtained by a second lookup
ApplyOutputLayerRelookup ==
    /\ pc = "L113"
    /\ \/ Fails
       \/ /\ NoRaise
          /\ calls' = calls \o
                <<NewCall("call", locals.embedding_layer, <<locals.word_ids>>,
                          OutputIds(2), NoStep),
                  NewCall("call", locals.output_layer,
                          <<locals.next_step_input, OutputIds(2)[2]>>,
                          <<Len(tensors) + 3>>, NoStep)>>
          /\ tensors' = tensors \o
                <<NewTensor(tensors[locals.next_step_input].shape, Len(calls) + 1),
                  NewTensor(tensors[locals.embedding_matrix].shape, Len(calls) + 1),
                  NewTensor(TiedOutputShape(tensors[locals.next_step_input].shape,
                                            tensors[locals.embedding_matrix].shape),
                            Len(calls) + 2)>>
          /\ locals' = [locals EXCEPT !.logits = Len(tensors) + 3]
          /\ pc' = "L112"
          /\ UNCHANGED <<caller, scope, arguments, params, stack, layers, models,
                         runModel, summaryPrinted>>

ApplyOutputLayer ==
    /\ pc = "L113"
    /\ \/ Fails
       \/ /\ NoRaise
          /\ Apply("call", locals.output_layer,
                   <<locals.next_step_input, locals.embedding_matrix>>,
                   <<TiedOutputShape(tensors[locals.next_step_input].shape,
                                     tensors[locals.embedding_matrix].shape)>>,
                   NoStep)
          /\ locals' = [locals EXCEPT !.logits = OutputIds(1)[1]]
          /\ pc' = "L112"
          /\ UNCHANGED <<caller, scope, arguments, params, stack, layers, models,
                         runModel, summaryPrinted>>

ApplySoftmax ==
    /\ pc = "L112"
    /\ \/ Fails
       \/ /\ NoRaise
          /\ Apply("call", locals.output_softmax_layer, <<locals.logits>>,
                   <<tensors[locals.logits].shape>>, NoStep)
          /\ locals' = [locals EXCEPT !.word_predictions = OutputIds(1)[1]]
          /\ pc' = "L114"
          /\ UNCHANGED <<caller, scope, arguments, params, stack, layers, models,
                         runModel, summaryPrinted>>

CreateModel ==
    /\ pc = "L114"
    /\ \/ Fails
       \/ /\ NoRaise
          /\ models' = Append(models, [inputs |-> <<locals.word_ids>>,
                                       outputs |-> <<locals.word_predictions>>,
                                       losses |-> <<>>])
          /\ locals' = [locals EXCEPT !.model = Len(models) + 1]
          /\ pc' = "L118"
          /\ UNCHANGED <<caller, scope, arguments, params, stack, layers, tensors,
                         calls, runModel, summaryPrinted>>

ComputeConfidencePenalty ==
    /\ pc = "L118"
    /\ \/ Fails
       \/ /\ NoRaise
          /\ Apply("backend", None, <<locals.word_predictions>>, << <<>> >>, NoStep)
          /\ locals' = [locals EXCEPT !.confidence_penalty = OutputIds(1)[1]]
          /\ pc' = "L121"
          /\ UNCHANGED <<caller, scope, arguments, params, stack, layers, models,
                         runModel, summaryPrinted>>

\* variant: the penalty is attached without looking at the flag
AddLossAlways ==
    /\ pc = "L121"
    /\ \/ Fails
       \/ /\ NoRaise
          /\ models' = [models EXCEPT ![locals.model].losses =
                            Append(@, locals.confidence_penalty)]
          /\ pc' = "L123"
          /\ UNCHANGED <<caller, scope, arguments, params, stack, layers,
                         tensors, calls, locals, runModel, summaryPrinted>>

AddLoss ==
    /\ pc = "L121"
    /\ IF params.penalize_confidence
       THEN \/ Fails
            \/ /\ NoRaise
               /\ models' = [models EXCEPT ![locals.model].losses =
                                 Append(@, locals.confidence_penalty)]
               /\ pc' = "L123"
               /\ UNCHANGED <<caller, scope, arguments, params, stack, layers,
                              tensors, calls, locals, runModel, summaryPrinted>>
       ELSE /\ NoRaise
            /\ pc' = "L123"
            /\ UNCHANGED <<caller, scope, arguments, params, stack, layers,
                           tensors, calls, locals, models, runModel,
                           summaryPrinted>>

Return ==
    /\ pc = "L123"
    /\ stack' = SubSeq(stack, 1, Len(stack) - 1)
    /\ runModel' = locals.model
    /\ pc' = IF Len(stack) > 1 THEN "L163" ELSE "done"
    /\ NoRaise
    /\ UNCHANGED <<caller, scope, arguments, params, layers, tensors, calls,
                   locals, models, summaryPrinted>>

\* ---- GPTModel.run, second half ----
RunSummary ==
    /\ pc = "L163"
    /\ IF arguments.print_summary
       THEN \/ Fails
            \/ /\ NoRaise
               /\ summaryPrinted' = summaryPrinted + 1
               /\ pc' = "L166"
               /\ UNCHANGED <<caller, scope, arguments, params, stack, layers,
                              tensors, calls, locals, models, runModel>>
       ELSE /\ NoRaise
            /\ pc' = "L166"
            /\ UNCHANGED <<caller, scope, arguments, params, stack, layers,
                           tensors, calls, locals, models, runModel,
                           summaryPrinted>>

RunStore ==
    /\ pc = "L166"
    /\ scope' = [scope EXCEPT !.model = runModel]
    /\ stack' = SubSeq(stack, 1, Len(stack) - 1)
    /\ pc' = "done"
    /\ NoRaise
    /\ UNCHANGED <<caller, arguments, params, layers, tensors, calls, locals,
                   models, runModel, summaryPrinted>>

\* ---- no frame has a handler: a raised error pops every frame ----
\* variant: the stage swallows an error of the assembly function
UnwindCaught ==
    /\ pc = "raise"
    /\ stack # <<>>
    /\ stack' = SubSeq(stack, 1, Len(stack) - 1)
    /\ IF Len(stack) > 1
       THEN /\ pc' = "L163"
            /\ exc' = NoExc
            /\ raised' = raised
       ELSE /\ pc' = "uncaught"
            /\ NoRaise
    /\ UNCHANGED <<caller, scope, arguments, params, layers, tensors, calls,
                   locals, models, runModel, summaryPrinted>>

Unwind ==
    /\ pc = "raise"
    /\ stack # <<>>
    /\ stack' = SubSeq(stack, 1, Len(stack) - 1)
    /\ pc' = IF Len(stack) > 1 THEN "raise" ELSE "uncaught"
    /\ NoRaise
    /\ UNCHANGED <<caller, scope, arguments, params, layers, tensors, calls,
                   locals, models, runModel, summaryPrinted>>

Next ==
    \/ RunReadScope
    \/ RunCall
    \/ CreateInput
    \/ CreateEmbeddingLayer
    \/ CreateOutputLayer
    \/ CreateConvLayer
    \/ CreateCoordinateEmbeddingLayer
    \/ CreateTransformerBlock
    \/ CreateACTLayer
    \/ CreateSoftmaxLayer
    \/ ApplyEmbedding
    \/ LoopTest
    \/ ApplyConv
    \/ ApplyCoordinateEmbedding
    \/ ApplyTransformerBlock
    \/ ApplyACT
    \/ Finalize
    \/ ApplyOutputLayer
    \/ ApplySoftmax
    \/ CreateModel
    \/ ComputeConfidencePenalty
    \/ AddLoss
    \/ Return
    \/ RunSummary
    \/ RunStore
    \/ Unwind

Spec == Init /\ [][Next]_vars

\* ---- observations on the heaps ----
LayersOfKind(kind) == {l \in 1..Len(layers) : layers[l].kind = kind}

KindCalls(kind) ==
    {c \in 1..Len(calls) : calls[c].op = "call" /\ layers[calls[c].layer].kind = kind}

Finalizations == {c \in 1..Len(calls) : calls[c].op = "finalize"}

Last(S) == CHOOSE c \in S : \A d \in S : d <= c

Built == locals.model # None

BuildSites ==
    {"L69", "L70", "L80", "L84", "L87", "L90", "L96", "L97", "L99", "L103",
     "L105", "L107", "L108", "L110", "L113", "L112", "L114", "L118", "L121"}

LoopSites == {"L103", "L105", "L107", "L108"}

LoopKinds ==
    {"Conv1D", "TransformerCoordinateEmbedding", "TransformerBlock", "TransformerACT"}

LoopCalls ==
    {c \in 1..Len(calls) :
        calls[c].op = "call" /\ layers[calls[c].layer].kind \in LoopKinds}

\* the layers one loop iteration applies, in program order
IterationKinds ==
    (IF params.use_convolutions THEN <<"Conv1D">> ELSE <<>>)
    \o (IF params.use_coordinate_embeddings
        THEN <<"TransformerCoordinateEmbedding">> ELSE <<>>)
    \o <<"TransformerBlock", "TransformerACT">>

\* C1: the embedding layer is applied once, to the input token ids, and the
\* matrix every output-projection call receives is the very tensor that
\* application returned as its second result.
C1_WeightTying ==
    /\ Cardinality(KindCalls("ReusableEmbedding")) <= 1
    /\ \A e \in KindCalls("ReusableEmbedding") :
          /\ calls[e].layer = locals.embedding_layer
          /\ calls[e].inputs = <<locals.word_ids>>
          /\ locals.embedding_matrix = calls[e].outputs[2]
    /\ \A c \in KindCalls("TiedOutputEmbedding") :
          /\ calls[c].layer = locals.output_layer
          /\ \E e \in KindCalls("ReusableEmbedding") :
                calls[c].inputs[2] = calls[e].outputs[2]

C1_Witness ==
    /\ pc = "done"
    /\ params.transformer_depth = 2
    /\ params.use_convolutions /\ params.use_coordinate_embeddings
    /\ KindCalls("TiedOutputEmbedding") # {}

\* C2: for depth N >= 1 there is never more than one transformer-block
\* instance, every block application uses it, and once the model is built
\* that single instance has been applied exactly N times.
C2_BlockShared ==
    params.transformer_depth >= 1 =>
        /\ Cardinality(LayersOfKind("TransformerBlock")) <= 1
        /\ \A c \in KindCalls("TransformerBlock") :
              calls[c].layer = locals.transformer_block
        /\ Cardinality(KindCalls("TransformerBlock")) <= locals.range_next
        /\ Built => /\ Cardinality(LayersOfKind("TransformerBlock")) = 1
                    /\ Cardinality(KindCalls("TransformerBlock"))
                           = params.transformer_depth

C2_Witness ==
    /\ Built
    /\ params.transformer_depth = MaxDepth
    /\ Cardinality(KindCalls("TransformerBlock")) = MaxDepth

\* C3: the model the function returns has exactly one added loss (the
\* confidence penalty) when penalize_confidence is set and none otherwise;
\* the penalty tensor has been computed in both cases.
C3_PenaltyIffFlag ==
    (pc \in {"L123", "L163", "L166", "done"}) =>
        /\ locals.confidence_penalty # None
        /\ models[locals.model].losses =
              IF params.penalize_confidence
              THEN <<locals.confidence_penalty>> ELSE <<>>

C3_Witness ==
    /\ pc = "done"
    /\ params.penalize_confidence
    /\ Len(models[locals.model].losses) = 1

\* C4: in a model built by the stage, convolution and coordinate embedding
\* exclude each other: with use_convolutions the convolution is applied once
\* per depth step and the coordinate embedding never, without it the
\* reverse; the model maps (sequence_length) to
\* (sequence_length, vocabulary_size) either way.
C4_StagePathsExclusive ==
    (caller = "run" /\ Len(stack) = 2) \/ (caller = "run" /\ Built) =>
        /\ params.use_convolutions = arguments.use_convolutions
        /\ IF arguments.use_convolutions
           THEN /\ KindCalls("TransformerCoordinateEmbedding") = {}
                /\ Built => Cardinality(KindCalls("Conv1D")) = arguments.depth
           ELSE /\ KindCalls("Conv1D") = {}
                /\ Built => Cardinality(KindCalls("TransformerCoordinateEmbedding"))
                                = arguments.depth
        /\ Built =>
              /\ tensors[models[locals.model].inputs[1]].shape
                    = <<scope.sequence_length>>
              /\ tensors[models[locals.model].outputs[1]].shape
                    = <<scope.sequence_length, scope.vocabulary_size>>

C4_Witness ==
    /\ caller = "run"
    /\ pc = "done"
    /\ arguments.use_convolutions
    /\ arguments.depth = 2
    /\ Cardinality(KindCalls("Conv1D")) = 2
    /\ scope.model = locals.model

\* C5: for depth >= 1 the hidden input of the output projection is the
\* second result (the pondered output) of the last ACT application.
C5_ProjectionTakesPondered ==
    params.transformer_depth >= 1 =>
        \A c \in KindCalls("TiedOutputEmbedding") :
            /\ KindCalls("TransformerACT") # {}
            /\ calls[c].inputs[1] = calls[Last(KindCalls("TransformerACT"))].outputs[2]

C5_Witness ==
    /\ params.transformer_depth = 2
    /\ KindCalls("TiedOutputEmbedding") # {}
    /\ Cardinality(KindCalls("TransformerACT")) = 2

\* C6 (as claimed): a convolution layer object exists only if
\* use_convolutions is set, a coordinate-embedding layer object only if
\* use_coordinate_embeddings is set, and with a toggle off the constructor of
\* that layer is never the origin of an error.
C6_OptionalLayersOnlyWhenToggled ==
    /\ ~params.use_convolutions =>
          /\ LayersOfKind("Conv1D") = {}
          /\ raised.site # "L84"
    /\ ~params.use_coordinate_embeddings =>
          /\ LayersOfKind("TransformerCoordinateEmbedding") = {}
          /\ raised.site # "L87"

\* C7: once an error has been raised it stays in flight unchanged until it
\* has left every frame, execution never resumes, no step taken from then on
\* writes the scope or prints a summary, and an error raised inside
\* universal_transformer_gpt_model leaves the stage with no summary printed
\* and scope['model'] not holding a model of this run.
C7_ErrorsPropagate ==
    /\ [](raised # NoExc =>
            /\ exc = raised
            /\ pc \in {"raise", "uncaught"}
            /\ (pc = "uncaught") = (stack = <<>>)
            /\ raised.site \in BuildSites =>
                  /\ summaryPrinted = 0
                  /\ scope.model \in {None, PriorModel})
    /\ [][raised' # NoExc =>
            /\ scope' = scope
            /\ summaryPrinted' = summaryPrinted]_vars

C7_Witness ==
    /\ caller = "run"
    /\ pc = "uncaught"
    /\ raised.site = "L107"
    /\ scope.model = PriorModel
    /\ arguments.print_summary

\* C8: the calls of the depth loop follow the embedding lookup in the fixed
\* per-iteration order convolution, coordinate embedding, transformer block,
\* ACT; each consumes the first result of the call before it (so the ACT's
\* next-step representation feeds the next iteration); the coordinate
\* embedding of iteration i gets step = i; a built model has run exactly
\* transformer_depth iterations.
C8_LoopOrder ==
    LET per == Len(IterationKinds) IN
    /\ \A c \in LoopCalls :
          /\ c >= 2
          /\ (c - 2) \div per < params.transformer_depth
          /\ layers[calls[c].layer].kind = IterationKinds[((c - 2) % per) + 1]
          /\ calls[c].inputs = <<calls[c - 1].outputs[1]>>
          /\ calls[c].step =
                IF layers[calls[c].layer].kind = "TransformerCoordinateEmbedding"
                THEN (c - 2) \div per ELSE NoStep
    /\ Built => Cardinality(LoopCalls) = per * params.transformer_depth

C8_Witness ==
    /\ Built
    /\ params.transformer_depth = MaxDepth
    /\ params.use_convolutions /\ params.use_coordinate_embeddings
    /\ Cardinality(LoopCalls) = 4 * MaxDepth

\* C9: the ACT controller is finalized at most once, after every ACT
\* application and before every output-projection application, and the
\* projection is never applied without that one finalization.
C9_FinalizeOnce ==
    /\ Cardinality(Finalizations) <= 1
    /\ \A f \in Finalizations :
          /\ calls[f].layer = locals.transformer_act_layer
          /\ \A a \in KindCalls("TransformerACT") : a < f
          /\ \A o \in KindCalls("TiedOutputEmbedding") : f < o
    /\ KindCalls("TiedOutputEmbedding") # {} => Cardinality(Finalizations) = 1
    /\ Built => Cardinality(Finalizations) = 1

C9_Witness ==
    /\ pc = "done"
    /\ params.transformer_depth = 2
    /\ Cardinality(Finalizations) = 1
    /\ Cardinality(KindCalls("TransformerACT")) = 2

\* C10: with transformer_depth = 0 no loop layer is ever applied and no error
\* originates in the loop body; the ACT controller is still finalized once
\* before the projection, the projection receives the raw embedded sequence
\* and the embedding matrix, and the function returns a model.
C10_DepthZero ==
    params.transformer_depth = 0 =>
        /\ LoopCalls = {}
        /\ raised.site \notin LoopSites
        /\ \A c \in KindCalls("TiedOutputEmbedding") :
              /\ Cardinality(Finalizations) = 1
              /\ \E e \in KindCalls("ReusableEmbedding") :
                    calls[c].inputs = <<calls[e].outputs[1], calls[e].outputs[2]>>
        /\ (pc = "done" /\ caller = "direct") =>
              /\ runModel = locals.model
              /\ Built
              /\ KindCalls("TiedOutputEmbedding") # {}

C10_Witness ==
    /\ pc = "done"
    /\ caller = "direct"
    /\ params.transformer_depth = 0
    /\ params.use_convolutions
    /\ Built
    /\ Cardinality(Finalizations) = 1

====
